---------------------------- MODULE Spec2Model ----------------------------
(* State-machine model of obs-ndi's NDI output (src/src/obs-ndi-output.cpp): *)
(* the output instance, the capture thread's raw-video / raw-audio entry     *)
(* points, the delivery thread (ndi_videosend_thread) and start / stop.      *)
(*                                                                           *)
(* The video queue is a libobs circlebuf that both threads use without a     *)
(* lock.  Its operations are taken as atomic; the places where the code      *)
(* reads the size and acts on it later are separate steps.  A pop-front on   *)
(* an empty circlebuf breaks the precondition of circlebuf_pop_front (its    *)
(* assert): the model draws the outcome from the ones a build can produce,   *)
(* an abort of the process or a stale descriptor with the size_t size        *)
(* wrapped below zero.                                                       *)
EXTENDS Integers, Sequences, FiniteSets, TLC

(***************************************************************************)
(* Program constants                                                       *)
(***************************************************************************)
MAX_BUFFERING_FRAMES == 60

\* 1000000000ULL, the nanoseconds of one second (lines 167 and 347)
NANOS == 1000000000

\* INT_MAX: the (int) casts of line 353 keep the low 32 bits
INT_MAX == 2147483647

(***************************************************************************)
(* Bounds of the model                                                     *)
(***************************************************************************)
\* calls the host makes in all: start, stop, raw video, raw audio
MaxHostCalls == 5

\* frames the delivery thread dequeues in its RUNNING loop
MaxDeliveries == 3

\* line sizes and rows of a converter call
MaxLinesize == 4

MaxRows == 2

\* cb_size is followed below zero down to -SizeFloor (a push at -1 brings the
\* wrapped size back to 0, a push below -1 asks for a huge reallocation)
SizeFloor == 2

(***************************************************************************)
(* Inputs                                                                  *)
(***************************************************************************)
\* A 64-bit nanosecond timestamp is hi * 2^31 + lo with 0 <= lo < 2^31.
TS(h, l) == [hi |-> h, lo |-> l]

VideoTimestamps ==
    { TS(0, 0), TS(0, 33366667), TS(0, 66733334), TS(0, 2100000000) }

AudioTimestamps == { TS(0, 66733334) }

\* Timestamps of an output that has been running for 2^31 ns and more
LateVideoTimestamps == { TS(0, 0), TS(1, 0), TS(2, 2100000000) }

\* What obs_get_video_info returns: output_format and fps_num / fps_den,
\* one converted format at a non-integer rate and one native format
VideoInfos ==
    { [format |-> "NV12", fps |-> <<30000, 1001>>],
      [format |-> "BGRA", fps |-> <<30, 1>>] }

NoFrame == [p_data |-> 0, rate |-> <<0, 0>>]

VARIABLES
    started,              \* o->started
    ndi_sender,           \* o->ndi_sender: "null", "live", "destroyed"
    conv_buffer,          \* o->conv_buffer: "null", "alloc", "dangling"
    frame_format,         \* o->frame_format
    video_info,           \* o->video_info: [format, fps]
    video_frames,         \* o->video_frames: the descriptors queued
    cb_size,              \* o->video_frames.size in frames; < 0: wrapped
    sem,                  \* o->video_send_sem
    stop_event,           \* o->video_send_stop_event
    last_audio_timestamp, \* o->last_audio_timestamp
    thr_pc,               \* the delivery thread's position
    frame_duration,       \* its local frame_duration
    cap,                  \* the capture thread inside ndi_output_rawvideo
    stop_pc,              \* the caller of ndi_output_stop
    life,                 \* the last lifecycle call that returned
    heap,                 \* pixel buffers: "none", "live", "freed", "freed2"
    nbuf,                 \* pixel buffers allocated so far
    sent,                 \* p_data of the video frames handed to the sink
    audio_sent,           \* audio frames handed to the sink
    feed,                 \* the raw-video calls that returned, in order
    conv,                 \* a call of one of the pixel converters
    lib_faults,           \* double destroy / double delete that happened
    crashed,              \* the process was aborted
    last_video_timestamp, \* the timestamp of the host's latest video frame
    ncalls, ndeliver

vars == << started, ndi_sender, conv_buffer, frame_format, video_info,
           video_frames, cb_size, sem, stop_event, last_audio_timestamp,
           thr_pc, frame_duration, cap, stop_pc, life, heap,
           nbuf, sent, audio_sent, feed, lib_faults, crashed, ncalls,
           ndeliver, last_video_timestamp, conv >>

\* everything but conv
outputState == << started, ndi_sender, conv_buffer, frame_format, video_info,
                  video_frames, cb_size, sem, stop_event,
                  last_audio_timestamp, thr_pc, frame_duration, cap, stop_pc,
                  life, heap, nbuf, sent, audio_sent, feed, lib_faults,
                  crashed, ncalls, ndeliver, last_video_timestamp >>

outputVars == << started, ndi_sender, conv_buffer, frame_format, video_info >>
queueVars == << video_frames, cb_size >>
threadVars == << thr_pc, frame_duration >>
countVars == << ncalls, ndeliver, last_video_timestamp >>

\* every admitted raw-video call allocates one pixel buffer
BufIds == 1 .. MaxHostCalls

(***************************************************************************)
(* Arithmetic of the code                                                  *)
(***************************************************************************)
min_int(a, b) == IF a < b THEN a ELSE b

Abs(a) == IF a < 0 THEN -a ELSE a

\* C integer division truncates toward zero
CDiv(a, b) ==
    IF a >= 0 THEN a \div b
    ELSE LET m == -(a + 1)
         IN  -((m \div b) + (IF (m % b) + 1 = b THEN 1 ELSE 0))

\* 1000000000ULL / (frame_rate_N / frame_rate_D), frame_rate_N and
\* frame_rate_D being ints: the inner division is an integer division
FrameTime(rate) == NANOS \div (rate[1] \div rate[2])

\* (int64_t)frame->timestamp - (int64_t)o->last_audio_timestamp, clamped at 0
AudioBuffering(v, a) ==
    IF v.hi < a.hi \/ (v.hi = a.hi /\ v.lo < a.lo) THEN TS(0, 0)
    ELSE IF v.lo >= a.lo THEN TS(v.hi - a.hi, v.lo - a.lo)
    ELSE TS(v.hi - a.hi - 1, ((v.lo - a.lo) + INT_MAX) + 1)

\* (int)audio_buffering: the low 32 bits, bit 31 being the sign
CastInt(t) == IF t.hi % 2 = 0 THEN t.lo ELSE (t.lo - INT_MAX) - 1

\* (int)audio_buffering / (int)frame_time
RequiredDelayFrames(v, a, rate) ==
    CDiv(CastInt(AudioBuffering(v, a)), FrameTime(rate))

\* An admission test that lets a queue of exactly 60 frames through
QueueFullOffByOne(size) == size < 0 \/ size > MAX_BUFFERING_FRAMES

\* frames_waiting >= MAX_BUFFERING_FRAMES; a wrapped size is a huge count
QueueFull(size) == size < 0 \/ size >= MAX_BUFFERING_FRAMES

(***************************************************************************)
(* The pixel converters (lines 38-112)                                     *)
(***************************************************************************)
\* A call of a converter: which one, in_linesize[0], out_linesize, the row
\* range, and for every row the loop visited the offsets into output that
\* were written
NoConversion ==
    [pc |-> "none", fn |-> "none", in_linesize |-> 0, out_linesize |-> 0,
     start_y |-> 0, end_y |-> 0, written |-> << >>]

ConverterCalls ==
    { [pc |-> "call", fn |-> f, in_linesize |-> i, out_linesize |-> o,
       start_y |-> s, end_y |-> e, written |-> << >>] :
         f \in {"nv12", "i420", "i444"},
         i \in 0 .. MaxLinesize, o \in 0 .. MaxLinesize,
         s \in 0 .. MaxRows, e \in 0 .. MaxRows }

min_uint32(a, b) == IF a < b THEN a ELSE b

\* for (x = 0; x < width; x += 2) with four *(_out++) = ... in the body:
\* the offsets written from _out on
RECURSIVE RowWrites(_, _, _)
RowWrites(x, out, width) ==
    IF x < width
    THEN {out, out + 1, out + 2, out + 3} \cup RowWrites(x + 2, out + 4, width)
    ELSE {}

\* for (y = start_y; y < end_y; y++) { _out = output + y * out_linesize; ... }
\* The three converters differ in the planes they read, not in what they
\* write.
ConvertedRows(c) ==
    [y \in c.start_y .. (c.end_y - 1) |->
        RowWrites(0, y * c.out_linesize,
                  min_uint32(c.in_linesize, c.out_linesize))]

convert_nv12_to_uyvy ==
    /\ conv.pc = "call"
    /\ conv.fn = "nv12"
    /\ conv' = [conv EXCEPT !.pc = "done", !.written = ConvertedRows(conv)]
    /\ UNCHANGED outputState

convert_i420_to_uyvy ==
    /\ conv.pc = "call"
    /\ conv.fn = "i420"
    /\ conv' = [conv EXCEPT !.pc = "done", !.written = ConvertedRows(conv)]
    /\ UNCHANGED outputState

convert_i444_to_uyvy ==
    /\ conv.pc = "call"
    /\ conv.fn = "i444"
    /\ conv' = [conv EXCEPT !.pc = "done", !.written = ConvertedRows(conv)]
    /\ UNCHANGED outputState

(***************************************************************************)
(* Heap of pixel buffers (bmalloc / bfree)                                 *)
(***************************************************************************)
\* bfree(p): nothing for a null pointer, a second bfree of one buffer is
\* recorded as "freed2"
\* a bfree that releases nothing
ReleaseNothing(h, p) == h

Free(h, p) ==
    IF p = 0 THEN h
    ELSE [h EXCEPT ![p] = IF @ = "live" THEN "freed" ELSE "freed2"]

(***************************************************************************)
(* The circlebuf                                                           *)
(***************************************************************************)
\* Descriptors that were written to the ring and can be read again from it:
\* a filler, and every real frame the capture thread has pushed.
StaleFrames ==
    { [p_data |-> p, rate |-> video_info.fps] :
        p \in {0} \cup { b \in 1 .. nbuf :
                           ~(cap.pc \in {"prepare", "drop_pop", "drop_wait",
                                         "fill", "push"}
                             /\ cap.p_data = b) } }

\* circlebuf_pop_front.  On an empty (or wrapped) ring the read returns what
\* the ring memory holds and the size_t size wraps, or the process aborts.
PopOutcomes ==
    IF cb_size >= 1
    THEN { [frame |-> Head(video_frames), q |-> Tail(video_frames),
            size |-> cb_size - 1, crash |-> FALSE] }
    ELSE { [frame |-> f, q |-> << >>,
            size |-> IF cb_size - 1 < -SizeFloor THEN -SizeFloor
                     ELSE cb_size - 1,
            crash |-> FALSE] : f \in StaleFrames }
         \cup { [frame |-> NoFrame, q |-> video_frames, size |-> cb_size,
                 crash |-> TRUE] }

\* circlebuf_push_back on the ring c = [q, size, crash].  With the size
\* wrapped by one descriptor the size returns to 0 and the descriptor is
\* lost; wrapped further, the ring asks for a reallocation of nearly 2^64
\* bytes and the process aborts.
PushBack(c, f) ==
    IF c.crash THEN c
    ELSE IF c.size >= 0
    THEN [q |-> Append(c.q, f), size |-> c.size + 1, crash |-> FALSE]
    ELSE IF c.size = -1
    THEN [q |-> << >>, size |-> 0, crash |-> FALSE]
    ELSE [c EXCEPT !.crash = TRUE]

Ring == [q |-> video_frames, size |-> cb_size, crash |-> FALSE]

\* n >= 1 pushes of the descriptor f, one after the other
PushBackN(c, f, n) ==
    LET first == PushBack(c, f)
    IN  IF first.crash THEN first
        ELSE [q |-> first.q \o [i \in 1 .. (n - 1) |-> f],
              size |-> first.size + (n - 1), crash |-> FALSE]

(***************************************************************************)
(* Init: the state ndi_output_create leaves (lines 270-283)                *)
(***************************************************************************)
IdleCap ==
    [pc |-> "idle", ts |-> TS(0, 0), p_data |-> 0, rate |-> <<0, 0>>,
     required |-> 0,
     current |-> 0, n |-> 0, fillers |-> 0, drops |-> 0, pushes |-> 0,
     popped |-> NoFrame]

CreatedOutput ==
    /\ started = FALSE
    /\ ndi_sender = "null"
    /\ conv_buffer = "null"
    /\ frame_format = "none"
    /\ video_info = [format |-> "none", fps |-> <<0, 0>>]
    /\ video_frames = << >>
    /\ cb_size = 0
    /\ sem = 0
    /\ stop_event = FALSE
    /\ last_audio_timestamp = TS(0, 0)
    /\ thr_pc = "none"
    /\ frame_duration = 0
    /\ cap = IdleCap
    /\ stop_pc = "idle"
    /\ life = "created"
    /\ heap = [b \in BufIds |-> "none"]
    /\ nbuf = 0
    /\ sent = << >>
    /\ audio_sent = 0
    /\ feed = << >>
    /\ lib_faults = {}
    /\ crashed = FALSE
    /\ ncalls = 0 /\ ndeliver = 0
    /\ last_video_timestamp = TS(0, 0)

Init ==
    /\ CreatedOutput
    /\ conv = NoConversion

(***************************************************************************)
(* ndi_output_start (lines 191-247)                                        *)
(***************************************************************************)
\* the switch of lines 200-221
ConvertedFormat(format) == format \in {"NV12", "I420", "I444"}

FrameFormatOf(format) == IF ConvertedFormat(format) THEN "UYVY" ELSE format

\* delete o->conv_buffer (line 195) followed by the switch, which allocates
\* a new buffer for the converted formats only and otherwise leaves the
\* pointer as it is
ConvBufferAfterStart(format) ==
    IF ConvertedFormat(format) THEN "alloc"
    ELSE IF conv_buffer = "null" THEN "null" ELSE "dangling"

StartFaults ==
    (IF ndi_sender = "destroyed" THEN {"sender_double_destroy"} ELSE {})
    \cup (IF conv_buffer = "dangling" THEN {"conv_double_delete"} ELSE {})

\* A start that begins the capture whether or not the sender was created
StartedIgnoringCreate(create_ok, capture_ok) == capture_ok

\* o->started after lines 230-233
StartedAfterStart(create_ok, capture_ok) == create_ok /\ capture_ok

Start(info, create_ok, capture_ok) ==
    /\ ~crashed
    /\ ncalls < MaxHostCalls
    /\ ~started /\ stop_pc = "idle" /\ thr_pc = "none"
    /\ ncalls' = ncalls + 1
    /\ lib_faults' = lib_faults \cup StartFaults
    /\ video_info' = info
    /\ frame_format' = FrameFormatOf(info.format)
    /\ conv_buffer' = ConvBufferAfterStart(info.format)
    /\ ndi_sender' = IF create_ok THEN "live" ELSE "null"
    /\ started' = StartedAfterStart(create_ok, capture_ok)
    /\ thr_pc' = IF started' THEN "wait" ELSE "none"
    /\ frame_duration' = 0
    /\ life' = IF started' THEN "started"
               ELSE IF create_ok THEN "capture_failed" ELSE "create_failed"
    /\ crashed' \in (IF StartFaults = {} THEN {FALSE} ELSE {FALSE, TRUE})
    /\ UNCHANGED << conv, queueVars, sem, stop_event, last_audio_timestamp,
                    cap, stop_pc, heap, nbuf, sent, audio_sent, feed, ndeliver,
                    last_video_timestamp >>

(***************************************************************************)
(* ndi_output_stop (lines 249-262)                                         *)
(***************************************************************************)
\* o->started = false; obs_output_end_data_capture (lines 252-253)
StopBegin ==
    /\ ~crashed
    /\ ncalls < MaxHostCalls
    /\ started /\ stop_pc = "idle"
    /\ started' = FALSE
    /\ stop_pc' = "signal"
    /\ ncalls' = ncalls + 1
    /\ UNCHANGED << conv, ndi_sender, conv_buffer, frame_format, video_info,
                    queueVars, sem, stop_event, last_audio_timestamp,
                    threadVars, cap, life, heap, nbuf, sent, audio_sent, feed,
                    lib_faults, crashed, ndeliver, last_video_timestamp >>

\* os_event_signal (line 255)
StopSignal ==
    /\ ~crashed
    /\ stop_pc = "signal"
    /\ stop_event' = TRUE
    /\ stop_pc' = "post"
    /\ UNCHANGED << conv, outputVars, queueVars, sem, last_audio_timestamp,
                    threadVars, cap, life, heap, nbuf, sent, audio_sent, feed,
                    lib_faults, crashed, countVars >>

\* os_sem_post (line 256)
StopPost ==
    /\ ~crashed
    /\ stop_pc = "post"
    /\ sem' = sem + 1
    /\ stop_pc' = "join"
    /\ UNCHANGED << conv, outputVars, queueVars, stop_event, last_audio_timestamp,
                    threadVars, cap, life, heap, nbuf, sent, audio_sent, feed,
                    lib_faults, crashed, countVars >>

\* pthread_join, NDIlib_send_destroy, delete o->conv_buffer (lines 257-261)
StopJoin ==
    /\ ~crashed
    /\ stop_pc = "join"
    /\ thr_pc = "exited"
    /\ thr_pc' = "none"
    /\ ndi_sender' = "destroyed"
    /\ lib_faults' = lib_faults \cup
           (IF conv_buffer = "dangling" THEN {"conv_double_delete"} ELSE {})
    /\ conv_buffer' = "null"
    /\ stop_pc' = "idle"
    /\ life' = "stopped"
    /\ crashed' \in (IF conv_buffer = "dangling" THEN {FALSE, TRUE}
                     ELSE {FALSE})
    /\ UNCHANGED << conv, started, frame_format, video_info, queueVars, sem,
                    stop_event, last_audio_timestamp, frame_duration, cap,
                    heap, nbuf, sent, audio_sent, feed, countVars >>


(***************************************************************************)
(* ndi_output_rawvideo (lines 290-382), on the capture thread              *)
(***************************************************************************)
\* A drift computation that asks for one frame too many
AddDelayFramesOffByOne(required, current) == required - current + 1

\* int add_delay_frames = required_delay_frames - (int)current_delay_frames
AddDelayFrames(required, current) == required - current

\* min_int(abs(add_delay_frames), (int)current_delay_frames) (line 359)
FramesToPop(required, current) ==
    min_int(Abs(AddDelayFrames(required, current)), current)

TsLeq(a, b) == a.hi < b.hi \/ (a.hi = b.hi /\ a.lo <= b.lo)

\* What a call that returns leaves in feed: its timestamp, whether it passed
\* admission control, the two delays it computed and what it did to the queue
Returned(c, admitted) ==
    [ts |-> c.ts, admitted |-> admitted, required |-> c.required,
     current |-> c.current, fillers |-> c.fillers, drops |-> c.drops,
     pushes |-> c.pushes]

\* Lines 292-299: the started check and admission control.  A call on an
\* output that is not started returns at once.
RawVideoEnter(ts) ==
    /\ ~crashed
    /\ cap.pc = "idle"
    /\ ncalls < MaxHostCalls
    /\ started
    /\ TsLeq(last_video_timestamp, ts)
    /\ last_video_timestamp' = ts
    /\ ncalls' = ncalls + 1
    /\ cap' = IF QueueFull(cb_size) THEN IdleCap
              ELSE [IdleCap EXCEPT !.pc = "prepare", !.ts = ts]
    /\ feed' = IF QueueFull(cb_size)
               THEN Append(feed, Returned([IdleCap EXCEPT !.ts = ts], FALSE))
               ELSE feed
    /\ UNCHANGED << conv, outputVars, queueVars, sem, stop_event,
                    last_audio_timestamp, threadVars, stop_pc, life, heap,
                    nbuf, sent, audio_sent, lib_faults, crashed, ndeliver >>

\* Where the call goes after line 356
AfterPrepare(required, current) ==
    IF AddDelayFrames(required, current) < 0
    THEN IF FramesToPop(required, current) > 0 THEN "drop_pop" ELSE "push"
    ELSE IF AddDelayFrames(required, current) > 0 THEN "fill"
    ELSE "push"

LoopCount(required, current) ==
    IF AddDelayFrames(required, current) < 0
    THEN FramesToPop(required, current)
    ELSE AddDelayFrames(required, current)

\* Lines 301-356: the descriptor, the conversion, the copy of the pixels
\* (bmalloc + memcpy) and the drift computation, which reads the queue size.
RawVideoPrepare ==
    /\ ~crashed
    /\ cap.pc = "prepare"
    /\ nbuf' = nbuf + 1
    /\ heap' = [heap EXCEPT ![nbuf + 1] = "live"]
    /\ LET required == RequiredDelayFrames(cap.ts, last_audio_timestamp,
                                           video_info.fps)
       IN  IF cb_size >= 0
           THEN /\ cap' = [cap EXCEPT
                             !.pc = AfterPrepare(required, cb_size),
                             !.p_data = nbuf + 1,
                             !.rate = video_info.fps,
                             !.required = required,
                             !.current = cb_size,
                             !.n = LoopCount(required, cb_size)]
                /\ crashed' = FALSE
           ELSE \* (int) of a wrapped size is whatever its low 32 bits are: a
                \* large count keeps the drop loop running, a negative one
                \* asks for about 2^31 fillers, which exhausts the memory
                \/ /\ cap' = [cap EXCEPT !.pc = "drop_pop",
                                         !.p_data = nbuf + 1,
                                         !.rate = video_info.fps,
                                         !.required = required,
                                         !.current = INT_MAX,
                                         !.n = INT_MAX]
                   /\ crashed' = FALSE
                \/ /\ cap' = [cap EXCEPT !.p_data = nbuf + 1,
                                         !.rate = video_info.fps,
                                         !.required = required]
                   /\ crashed' = TRUE
    /\ UNCHANGED << conv, outputVars, queueVars, sem, stop_event,
                    last_audio_timestamp, threadVars, stop_pc, life, sent,
                    audio_sent, feed, lib_faults, countVars >>

\* circlebuf_pop_front of the drop loop (line 362)
RawVideoDropPop ==
    /\ ~crashed
    /\ cap.pc = "drop_pop"
    /\ \E o \in PopOutcomes :
          /\ video_frames' = o.q
          /\ cb_size' = o.size
          /\ crashed' = o.crash
          /\ cap' = IF o.crash THEN cap
                    ELSE [cap EXCEPT !.pc = "drop_wait", !.popped = o.frame]
    /\ UNCHANGED << conv, outputVars, sem, stop_event, last_audio_timestamp,
                    threadVars, stop_pc, life, heap, nbuf, sent, audio_sent, feed,
                    lib_faults, countVars >>

\* os_sem_wait and bfree of the drop loop (lines 363-364): blocks while the
\* semaphore is 0
RawVideoDropWait ==
    /\ ~crashed
    /\ cap.pc = "drop_wait"
    /\ sem > 0
    /\ sem' = sem - 1
    /\ heap' = Free(heap, cap.popped.p_data)
    /\ cap' = [cap EXCEPT
                 !.pc = IF cap.drops + 1 < cap.n THEN "drop_pop" ELSE "push",
                 !.drops = cap.drops + 1,
                 !.popped = NoFrame]
    /\ UNCHANGED << conv, outputVars, queueVars, stop_event, last_audio_timestamp,
                    threadVars, stop_pc, life, nbuf, sent, audio_sent, feed,
                    lib_faults, crashed, countVars >>

\* The filler loop (lines 367-376): add_delay_frames times,
\* circlebuf_push_back of the descriptor with p_data = nullptr and
\* os_sem_post.  The loop only appends and posts, so it is one step.
RawVideoFill ==
    /\ ~crashed
    /\ cap.pc = "fill"
    /\ LET o == PushBackN(Ring, [p_data |-> 0, rate |-> cap.rate], cap.n)
       IN  /\ video_frames' = o.q
           /\ cb_size' = o.size
           /\ crashed' = o.crash
           /\ sem' = IF o.crash THEN sem ELSE sem + cap.n
           /\ cap' = IF o.crash THEN cap
                     ELSE [cap EXCEPT !.pc = "push", !.fillers = cap.n]
    /\ UNCHANGED << conv, outputVars, stop_event, last_audio_timestamp,
                    threadVars, stop_pc, life, heap, nbuf, sent, audio_sent, feed,
                    lib_faults, countVars >>

\* circlebuf_push_back of the new frame (lines 379-380)
RawVideoPush ==
    /\ ~crashed
    /\ cap.pc = "push"
    /\ LET o == PushBack(Ring, [p_data |-> cap.p_data, rate |-> cap.rate])
       IN  /\ video_frames' = o.q
           /\ cb_size' = o.size
           /\ crashed' = o.crash
           /\ cap' = IF o.crash THEN cap
                     ELSE [cap EXCEPT !.pc = "post", !.pushes = cap.pushes + 1]
    /\ UNCHANGED << conv, outputVars, sem, stop_event, last_audio_timestamp,
                    threadVars, stop_pc, life, heap, nbuf, sent, audio_sent, feed,
                    lib_faults, countVars >>

\* os_sem_post (line 381) and the return
RawVideoPost ==
    /\ ~crashed
    /\ cap.pc = "post"
    /\ sem' = sem + 1
    /\ cap' = IdleCap
    /\ feed' = Append(feed, Returned(cap, TRUE))
    /\ UNCHANGED << conv, outputVars, queueVars, stop_event, last_audio_timestamp,
                    threadVars, stop_pc, life, heap, nbuf, sent, audio_sent,
                    lib_faults, crashed, countVars >>

(***************************************************************************)
(* ndi_output_rawaudio (lines 384-411)                                     *)
(***************************************************************************)
\* a rawaudio that signals the delivery thread as a video frame does
RawAudioPosting(ts) ==
    /\ ~crashed
    /\ cap.pc = "idle"
    /\ ncalls < MaxHostCalls
    /\ started
    /\ ncalls' = ncalls + 1
    /\ audio_sent' = audio_sent + 1
    /\ last_audio_timestamp' = ts
    /\ sem' = sem + 1
    /\ UNCHANGED << conv, outputVars, queueVars, stop_event, threadVars, cap,
                    stop_pc, life, heap, nbuf, sent, feed, lib_faults, crashed,
                    ndeliver, last_video_timestamp >>

RawAudio(ts) ==
    /\ ~crashed
    /\ cap.pc = "idle"
    /\ ncalls < MaxHostCalls
    /\ started
    /\ ncalls' = ncalls + 1
    /\ audio_sent' = audio_sent + 1
    /\ last_audio_timestamp' = ts
    /\ UNCHANGED << conv, outputVars, queueVars, sem, stop_event, threadVars, cap,
                    stop_pc, life, heap, nbuf, sent, feed, lib_faults, crashed,
                    ndeliver, last_video_timestamp >>

(***************************************************************************)
(* ndi_videosend_thread (lines 153-189)                                    *)
(***************************************************************************)
\* os_sem_wait and os_event_try (lines 158-161).  The wait blocks while the
\* semaphore is 0; a signalled auto-reset event is consumed and the loop is
\* left.  The model follows the thread through MaxDeliveries dequeues; a
\* stop is never held back by that bound.
ThreadWait ==
    /\ ~crashed
    /\ thr_pc = "wait"
    /\ sem > 0
    /\ sem' = sem - 1
    /\ IF stop_event
       THEN /\ stop_event' = FALSE
            /\ thr_pc' = "flush"
            /\ ndeliver' = ndeliver
       ELSE /\ ndeliver < MaxDeliveries
            /\ stop_event' = stop_event
            /\ thr_pc' = "pop"
            /\ ndeliver' = ndeliver + 1
    /\ UNCHANGED << conv, outputVars, queueVars, last_audio_timestamp,
                    frame_duration, cap, stop_pc, life, heap, nbuf, sent,
                    audio_sent, feed, lib_faults, crashed, ncalls,
                    last_video_timestamp >>

\* Lines 163-177: pop the oldest descriptor, compute frame_duration, send a
\* frame that has pixels and release them, sleep to the deadline
ThreadDeliver ==
    /\ ~crashed
    /\ thr_pc = "pop"
    /\ \E o \in PopOutcomes :
          /\ video_frames' = o.q
          /\ cb_size' = o.size
          /\ crashed' = o.crash
          /\ IF o.crash
             THEN UNCHANGED << threadVars, sent, heap >>
             ELSE /\ frame_duration' = FrameTime(o.frame.rate)
                  /\ sent' = IF o.frame.p_data # 0
                             THEN Append(sent, o.frame.p_data) ELSE sent
                  /\ heap' = Free(heap, o.frame.p_data)
                  /\ thr_pc' = "wait"
    /\ UNCHANGED << conv, outputVars, sem, stop_event, last_audio_timestamp, cap,
                    stop_pc, life, nbuf, audio_sent, feed, lib_faults, countVars >>

\* The flush loop (lines 181-186), run to its end: every queued descriptor
\* is popped and its pixels released.  With the size wrapped the condition
\* size > 0 stays true: each iteration pops a stale descriptor and releases
\* its pointer again (one iteration per step), or the process aborts.
FreeAll(h, q) ==
    [b \in DOMAIN h |->
        IF \E i \in 1 .. Len(q) : q[i].p_data = b THEN Free(h, b)[b]
        ELSE h[b]]

ThreadFlush ==
    /\ ~crashed
    /\ thr_pc = "flush"
    /\ IF cb_size >= 0
       THEN /\ heap' = FreeAll(heap, video_frames)
            /\ video_frames' = << >>
            /\ cb_size' = 0
            /\ thr_pc' = "exited"
            /\ frame_duration' = 0
            /\ crashed' = FALSE
       ELSE \E o \in PopOutcomes :
               /\ video_frames' = o.q
               /\ cb_size' = o.size
               /\ crashed' = o.crash
               /\ heap' = IF o.crash THEN heap ELSE Free(heap, o.frame.p_data)
               /\ UNCHANGED threadVars
    /\ UNCHANGED << conv, outputVars, sem, stop_event, last_audio_timestamp, cap,
                    stop_pc, life, nbuf, sent, audio_sent, feed, lib_faults,
                    countVars >>

(***************************************************************************)
(* Specification                                                           *)
(***************************************************************************)
CaptureStep ==
    \/ RawVideoPrepare
    \/ RawVideoDropPop
    \/ RawVideoDropWait
    \/ RawVideoFill
    \/ RawVideoPush
    \/ RawVideoPost

ThreadStep ==
    \/ ThreadWait
    \/ ThreadDeliver
    \/ ThreadFlush

StopStep ==
    \/ StopSignal
    \/ StopPost
    \/ StopJoin

HostCall ==
    \/ \E info \in VideoInfos, create_ok \in BOOLEAN, capture_ok \in BOOLEAN :
          Start(info, create_ok, capture_ok)
    \/ StopBegin
    \/ \E ts \in VideoTimestamps : RawVideoEnter(ts)
    \/ \E ts \in AudioTimestamps : RawAudio(ts)

Next == HostCall \/ CaptureStep \/ ThreadStep \/ StopStep

Spec == Init /\ [][Next]_vars

\* The converters alone, called on every row range and pair of line sizes
ConvInit ==
    /\ CreatedOutput
    /\ conv \in { c \in ConverterCalls : c.start_y <= c.end_y }

ConvNext ==
    \/ convert_nv12_to_uyvy
    \/ convert_i420_to_uyvy
    \/ convert_i444_to_uyvy

ConvSpec == ConvInit /\ [][ConvNext]_vars

\* An output that is started and not stopped, fed for 2^31 ns and more
LongRunNext ==
    \/ \E info \in VideoInfos, create_ok \in BOOLEAN, capture_ok \in BOOLEAN :
          Start(info, create_ok, capture_ok)
    \/ \E ts \in LateVideoTimestamps : RawVideoEnter(ts)
    \/ \E ts \in AudioTimestamps : RawAudio(ts)
    \/ CaptureStep
    \/ ThreadWait
    \/ ThreadDeliver

LongRunSpec == Init /\ [][LongRunNext]_vars

\* The three threads are scheduled by the operating system: a thread that can
\* take a step is not held back forever.  Calls of the host are not forced.
FairSpec ==
    /\ Init
    /\ [][Next]_vars
    /\ WF_vars(CaptureStep)
    /\ WF_vars(ThreadStep)
    /\ WF_vars(StopStep)

(***************************************************************************)
(* Properties                                                              *)
(***************************************************************************)
\* C1: the number of frames held in the video queue never exceeds
\* MAX_BUFFERING_FRAMES (60)
QueueNeverExceedsMax ==
    /\ cb_size <= MAX_BUFFERING_FRAMES
    /\ Len(video_frames) <= MAX_BUFFERING_FRAMES

\* C2: once ndi_output_stop has returned and no raw-video call is still
\* running, the queue holds 0 frames and every pixel buffer that rawvideo
\* allocated has been released
StopLeavesNothingBehind ==
    (life = "stopped" /\ stop_pc = "idle" /\ cap.pc = "idle" /\ ~crashed)
        => /\ cb_size = 0
           /\ video_frames = << >>
           /\ \A b \in BufIds : heap[b] # "live"

\* C3: a call of ndi_output_stop on a started output eventually returns (or
\* the process has aborted)
StopEventuallyReturns ==
    (stop_pc # "idle") ~> (stop_pc = "idle" \/ crashed)

\* C4: ndi_output_rawvideo never blocks: each os_sem_wait of its drop loop
\* finds the semaphore above 0
DropWaitNeverBlocks ==
    cap.pc = "drop_wait" => sem > 0

\* C5: the frames with pixels reach the sink in the order in which rawvideo
\* admitted them: of two frames that are both sent, the one admitted first
\* (buffers are numbered in admission order) is not sent after the other
SentInAdmissionOrder ==
    \A i, j \in DOMAIN sent : i < j => sent[i] <= sent[j]

\* C6: a start whose NDIlib_send_create fails leaves no partial state: the
\* output is not started, no delivery thread runs and no conversion buffer
\* is held
FailedCreateLeavesNothing ==
    life = "create_failed"
        => /\ ~started
           /\ thr_pc = "none"
           /\ conv_buffer # "alloc"

\* The feed of the three-frame scenario: one frame every 1001/30000 s
ThreeFrames == << TS(0, 0), TS(0, 33366667), TS(0, 66733334) >>

\* The output was started once at 30000/1001, has received no audio, and
\* every call since was a raw-video call of the scenario, in order
InThreeFrameScenario ==
    /\ started
    /\ video_info.fps = << 30000, 1001 >>
    /\ audio_sent = 0
    /\ cap.pc = "idle"
    /\ ncalls = Len(feed) + 1
    /\ Len(feed) <= Len(ThreeFrames)
    /\ \A i \in DOMAIN feed : feed[i].admitted /\ feed[i].ts = ThreeFrames[i]

\* C9: in the three-frame scenario required_delay_frames increases from
\* each call to the next, each successive call inserts filler frames before
\* the real frame, and no call drops a queued frame
ThreeFramesOnlyFill ==
    InThreeFrameScenario
        => \A i \in DOMAIN feed :
              /\ feed[i].drops = 0
              /\ i > 1 => /\ feed[i].required > feed[i - 1].required
                          /\ feed[i].fillers > 0

\* 1e9 * frame_rate_D / frame_rate_N, rounded down
ExactFrameDuration(rate) ==
    (NANOS \div rate[1]) * rate[2] + ((NANOS % rate[1]) * rate[2]) \div rate[1]

\* C10: the frame_duration the delivery thread computes for a frame is
\* 1e9 * frame_rate_D / frame_rate_N up to rounding, at every frame rate
FrameDurationIsExact ==
    [][(thr_pc = "pop" /\ thr_pc' = "wait" /\ cb_size >= 1)
          => Abs(frame_duration'
                   - ExactFrameDuration(Head(video_frames).rate)) <= 1]_vars

\* C7: a raw-video call entered while the queue holds 60 or more frames is a
\* no-op: nothing is converted, allocated or enqueued, and the queue, the
\* semaphore and last_audio_timestamp are unchanged
FullQueueCallIsNoOp ==
    [][(cb_size >= MAX_BUFFERING_FRAMES
           /\ \E ts \in VideoTimestamps : RawVideoEnter(ts))
          => /\ cap' = IdleCap
             /\ UNCHANGED << conv, video_frames, cb_size, sem, last_audio_timestamp,
                             heap, nbuf, conv_buffer, sent >>]_vars

\* A call has just been turned away by a queue of 60 or more frames
FullQueueCallReturned ==
    /\ cb_size >= MAX_BUFFERING_FRAMES
    /\ cap.pc = "idle"
    /\ feed # << >>
    /\ ~feed[Len(feed)].admitted

SemaphoreCountsQueue ==
    (life = "stopped" /\ stop_pc = "idle" /\ cap.pc = "idle"
       /\ thr_pc = "none" /\ ncalls <= 3 /\ ~crashed)
        => sem \in { cb_size, cb_size + 1 }

\* C12: the sender handle is created and destroyed only while no delivery
\* thread exists: from pthread_create to pthread_join the handle is the live
\* one NDIlib_send_create returned, so the thread never sends on a destroyed
\* (or null) handle, across restarts too
SenderLiveWhileThreadRuns ==
    thr_pc # "none" => ndi_sender = "live"

\* The thread of a second start, made after a stop destroyed the first
\* handle, is about to send a frame with pixels
RestartedThreadSends ==
    /\ "sender_double_destroy" \in lib_faults
    /\ thr_pc = "pop"
    /\ cb_size >= 1
    /\ Head(video_frames).p_data # 0
    /\ ndi_sender = "live"

\* C13: a converter writes exactly 4 * floor(width / 2) bytes for every row
\* of [start_y, end_y), width being min(in_linesize[0], out_linesize), for
\* exactly those rows, and no byte outside
\* [start_y * out_linesize, end_y * out_linesize)
ConverterWritesItsRows ==
    conv.pc = "done"
        => LET width == min_uint32(conv.in_linesize, conv.out_linesize)
           IN  /\ DOMAIN conv.written = conv.start_y .. (conv.end_y - 1)
               /\ \A y \in DOMAIN conv.written :
                     /\ Cardinality(conv.written[y]) = 4 * (width \div 2)
                     /\ \A b \in conv.written[y] :
                           /\ conv.start_y * conv.out_linesize <= b
                           /\ b < conv.end_y * conv.out_linesize

\* C14: every pixel buffer that rawvideo copied is released once: no buffer
\* is passed to bfree a second time
BuffersReleasedOnce ==
    \A b \in BufIds : heap[b] # "freed2"

\* C15: once the delivery thread has found the stop event set it sends
\* nothing more, and its drain releases every queued pixel buffer, leaves
\* the queue empty and ends with the thread's exit
StopSeenDrainsAndExits ==
    [][/\ thr_pc \in {"flush", "exited"} => sent' = sent
       /\ ThreadFlush
            => /\ thr_pc' = "exited"
               /\ video_frames' = << >>
               /\ cb_size' = 0
               /\ \A i \in 1 .. Len(video_frames) :
                     video_frames[i].p_data # 0
                        => heap'[video_frames[i].p_data] # "live"]_vars

\* C16: when an admitted call is about to return and the delivery thread has
\* taken no step, the queue holds required_delay_frames + 1 descriptors and
\* the last one is the call's own frame
QueueReconciledToRequired ==
    (cap.pc = "post" /\ thr_pc = "wait" /\ ndeliver = 0)
        => /\ cb_size = cap.required + 1
           /\ Len(video_frames) = cb_size
           /\ video_frames[Len(video_frames)].p_data = cap.p_data

\* floor(max(0, video - audio) / frame time) on the 64-bit difference, which
\* is hi * 2^31 + lo, with 2^31 = (INT_MAX \div ft) * ft + (INT_MAX % ft) + 1
ExactDelayFrames(v, a, rate) ==
    LET d  == AudioBuffering(v, a)
        ft == FrameTime(rate)
    IN  d.hi * (INT_MAX \div ft) + (d.lo \div ft)
          + (d.hi * ((INT_MAX % ft) + 1) + (d.lo % ft)) \div ft

\* C17: the required_delay_frames a call computes is
\* floor(max(0, video_timestamp - last_audio_timestamp) / frame duration)
\* and so never negative, for differences of 2^31 ns and more too
RequiredDelayIsExact ==
    (cap.pc \notin {"idle", "prepare"})
        => /\ cap.required >= 0
           /\ cap.required
                = ExactDelayFrames(cap.ts, last_audio_timestamp, cap.rate)

AudioBypassesQueue ==
    [][/\ audio_sent' # audio_sent
            => /\ started
               /\ audio_sent' = audio_sent + 1
               /\ last_audio_timestamp' \in AudioTimestamps
               /\ UNCHANGED << video_frames, cb_size, sem, stop_event,
                               sent, heap >>
       /\ last_audio_timestamp' # last_audio_timestamp
            => audio_sent' = audio_sent + 1]_vars

\* an audio frame was sent while one video frame waits in the queue for the
\* delivery thread, which has not dequeued anything yet
AudioSentBesideQueuedVideo ==
    /\ started
    /\ audio_sent >= 1
    /\ last_audio_timestamp \in AudioTimestamps
    /\ last_audio_timestamp # TS(0, 0)
    /\ cap.pc = "idle"
    /\ ndeliver = 0
    /\ cb_size = 1
    /\ Len(video_frames) = 1
    /\ video_frames[1].p_data # 0
    /\ sem = 1
    /\ ~stop_event

\* C20: the delivery thread past its wait with the stop event not set, and
\* the capture thread at a drift-correction pop, find at least one
\* descriptor in the queue
NoPopOnEmptyQueue ==
    /\ thr_pc = "pop" => cb_size >= 1
    /\ cap.pc = "drop_pop" => cb_size >= 1

=============================================================================
